---- MODULE Spec2Model ----
(***************************************************************************)
(* Quick Fit memory allocator (src/MIniProject.py): the QuickFit class     *)
(* (size-class pools, process bindings, allocate / deallocate /            *)
(* get_memory_state) and the Tkinter front-end handlers that drive it.     *)
(*                                                                         *)
(* A Python dict is modelled by a function (key -> value) together with    *)
(* the sequence of its keys in insertion order, because iteration order    *)
(* is observable in get_memory_state.                                      *)
(***************************************************************************)
EXTENDS Integers, Sequences, FiniteSets, TLC

VARIABLES
    memory_blocks,         \* QuickFit.memory_blocks: size -> sequence of free block names
    memory_order,          \* insertion order of the keys of memory_blocks
    allocated_processes,   \* QuickFit.allocated_processes: process id -> [block, size]
    allocated_order,       \* insertion order of the keys of allocated_processes
    last,                  \* the most recent call on the QuickFit object and what it returned
    prev,                  \* how the call before that one relates to it
    process_id_entry,      \* text of the "Process ID" entry widget
    size_entry,            \* text of the "Memory Size (KB)" entry widget (sequence of characters)
    state_text,            \* contents of the "Memory State" text widget
    messagebox,            \* the dialog most recently shown by a handler
    core_calls,            \* the calls the most recent handler made on the QuickFit object
    threads,               \* per concurrent caller: where it stands inside allocate / deallocate, and its locals
    overlapped             \* some caller has taken a step while another one was inside a call

core_vars == <<memory_blocks, memory_order, allocated_processes, allocated_order>>
hist_vars == <<last, prev>>
gui_vars  == <<process_id_entry, size_entry, state_text, messagebox, core_calls>>
thread_vars == <<threads, overlapped>>
vars      == <<memory_blocks, memory_order, allocated_processes, allocated_order,
               last, prev,
               process_id_entry, size_entry, state_text, messagebox, core_calls,
               threads, overlapped>>

----------------------------------------------------------------------------
(* Bounds and input sets *)

NumProcs == 2

\* calls each concurrent caller makes in the interleaving model
MaxCalls == 2

ProcNames == <<"P1", "P2", "P3", "P4">>

Procs == {ProcNames[i] : i \in 1..NumProcs}

\* the concurrent callers of the interleaving model
Threads == {"T1", "T2"}

\* sizes a caller passes to allocate: the three seeded classes and an unseeded one
Sizes == {50, 100, 200, 999}

----------------------------------------------------------------------------
(* The seed built by QuickFitGUI.__init__ *)

initial_blocks ==
    (50 :> <<"Block1", "Block2">>) @@ (100 :> <<"Block3", "Block4">>) @@ (200 :> <<"Block5">>)

initial_order == <<50, 100, 200>>

SeedBlocks == UNION {{initial_blocks[s][i] : i \in DOMAIN initial_blocks[s]} : s \in DOMAIN initial_blocks}

----------------------------------------------------------------------------
(* Python dict operations *)

\* d[k] = v
DictSet(d, k, v) == [x \in (DOMAIN d) \cup {k} |-> IF x = k THEN v ELSE d[x]]

\* key order after d[k] = v: an existing key keeps its position, a new key goes last
OrderSet(d, order, k) == IF k \in DOMAIN d THEN order ELSE Append(order, k)

\* del d[k]
DictDel(d, k) == [x \in (DOMAIN d) \ {k} |-> d[x]]

\* key order after del d[k]
OrderDel(order, k) == SelectSeq(order, LAMBDA x : x # k)

----------------------------------------------------------------------------
(* The QuickFit object as a value, so that its methods are operators *)

Self ==
    [memory_blocks       |-> memory_blocks,
     memory_order        |-> memory_order,
     allocated_processes |-> allocated_processes,
     allocated_order     |-> allocated_order]

\* QuickFit.__init__(memory_blocks)
QuickFitInit(blocks, order) ==
    [memory_blocks       |-> blocks,
     memory_order        |-> order,
     allocated_processes |-> << >>,
     allocated_order     |-> << >>]

\* free sequence of a size class, empty when the class does not exist
FreeSeq(self, size) ==
    IF size \in DOMAIN self.memory_blocks THEN self.memory_blocks[size] ELSE << >>

\* allocate that falls back to the smallest larger class when the exact class has no block
allocate_next_fit(self, process_id, size) ==
    LET fits == {c \in DOMAIN self.memory_blocks : c >= size /\ self.memory_blocks[c] # << >>}
    IN  IF fits # {}
        THEN LET c == CHOOSE x \in fits : \A y \in fits : x <= y
                 allocated_block == Head(self.memory_blocks[c])
             IN  [self |-> [self EXCEPT
                              !.memory_blocks[c] = Tail(@),
                              !.allocated_processes =
                                  DictSet(@, process_id, [block |-> allocated_block, size |-> c]),
                              !.allocated_order =
                                  OrderSet(self.allocated_processes, @, process_id)],
                  ret  |-> [ok |-> TRUE,
                            message |-> [kind |-> "allocated", process_id |-> process_id,
                                         block |-> allocated_block, size |-> c]]]
        ELSE [self |-> self,
              ret  |-> [ok |-> FALSE,
                        message |-> [kind |-> "no_exact_block", process_id |-> process_id,
                                     size |-> size]]]

\* allocate that takes the newest block: pop() in place of pop(0)
allocate_pop_last(self, process_id, size) ==
    IF size \in DOMAIN self.memory_blocks /\ self.memory_blocks[size] # << >>
    THEN LET n == Len(self.memory_blocks[size])
             allocated_block == self.memory_blocks[size][n]
         IN  [self |-> [self EXCEPT
                          !.memory_blocks[size] = SubSeq(@, 1, n - 1),
                          !.allocated_processes =
                              DictSet(@, process_id, [block |-> allocated_block, size |-> size]),
                          !.allocated_order =
                              OrderSet(self.allocated_processes, @, process_id)],
              ret  |-> [ok |-> TRUE,
                        message |-> [kind |-> "allocated", process_id |-> process_id,
                                     block |-> allocated_block, size |-> size]]]
    ELSE [self |-> self,
          ret  |-> [ok |-> FALSE,
                    message |-> [kind |-> "no_exact_block", process_id |-> process_id,
                                 size |-> size]]]

\* allocate that looks the class up with setdefault(size, []): a miss creates the class
allocate_setdefault(self, process_id, size) ==
    IF size \in DOMAIN self.memory_blocks /\ self.memory_blocks[size] # << >>
    THEN LET allocated_block == Head(self.memory_blocks[size])
         IN  [self |-> [self EXCEPT
                          !.memory_blocks[size] = Tail(@),
                          !.allocated_processes =
                              DictSet(@, process_id, [block |-> allocated_block, size |-> size]),
                          !.allocated_order =
                              OrderSet(self.allocated_processes, @, process_id)],
              ret  |-> [ok |-> TRUE,
                        message |-> [kind |-> "allocated", process_id |-> process_id,
                                     block |-> allocated_block, size |-> size]]]
    ELSE [self |-> [self EXCEPT
                      !.memory_blocks =
                          IF size \in DOMAIN @ THEN @ ELSE DictSet(@, size, << >>),
                      !.memory_order = OrderSet(self.memory_blocks, @, size)],
          ret  |-> [ok |-> FALSE,
                    message |-> [kind |-> "no_exact_block", process_id |-> process_id,
                                 size |-> size]]]

\* allocate that first hands back the block the process already holds
allocate_release_old(self, process_id, size) ==
    IF size \in DOMAIN self.memory_blocks /\ self.memory_blocks[size] # << >>
    THEN LET allocated_block == Head(self.memory_blocks[size])
             popped == [self.memory_blocks EXCEPT ![size] = Tail(@)]
             held == self.allocated_processes[process_id]
         IN  [self |-> [self EXCEPT
                          !.memory_blocks =
                              IF process_id \in DOMAIN self.allocated_processes
                              THEN [popped EXCEPT ![held.size] = Append(@, held.block)]
                              ELSE popped,
                          !.allocated_processes =
                              DictSet(@, process_id, [block |-> allocated_block, size |-> size]),
                          !.allocated_order =
                              OrderSet(self.allocated_processes, @, process_id)],
              ret  |-> [ok |-> TRUE,
                        message |-> [kind |-> "allocated", process_id |-> process_id,
                                     block |-> allocated_block, size |-> size]]]
    ELSE [self |-> self,
          ret  |-> [ok |-> FALSE,
                    message |-> [kind |-> "no_exact_block", process_id |-> process_id,
                                 size |-> size]]]

\* allocate that reads the first block without removing it: [0] in place of pop(0)
allocate_peek(self, process_id, size) ==
    IF size \in DOMAIN self.memory_blocks /\ self.memory_blocks[size] # << >>
    THEN LET allocated_block == Head(self.memory_blocks[size])
         IN  [self |-> [self EXCEPT
                          !.allocated_processes =
                              DictSet(@, process_id, [block |-> allocated_block, size |-> size]),
                          !.allocated_order =
                              OrderSet(self.allocated_processes, @, process_id)],
              ret  |-> [ok |-> TRUE,
                        message |-> [kind |-> "allocated", process_id |-> process_id,
                                     block |-> allocated_block, size |-> size]]]
    ELSE [self |-> self,
          ret  |-> [ok |-> FALSE,
                    message |-> [kind |-> "no_exact_block", process_id |-> process_id,
                                 size |-> size]]]

\* allocate that deletes a class when it takes its last block
allocate_drop_empty(self, process_id, size) ==
    IF size \in DOMAIN self.memory_blocks /\ self.memory_blocks[size] # << >>
    THEN LET allocated_block == Head(self.memory_blocks[size])
             emptied == Len(self.memory_blocks[size]) = 1
         IN  [self |-> [self EXCEPT
                          !.memory_blocks =
                              IF emptied THEN DictDel(@, size)
                              ELSE [@ EXCEPT ![size] = Tail(@)],
                          !.memory_order =
                              IF emptied THEN OrderDel(@, size) ELSE @,
                          !.allocated_processes =
                              DictSet(@, process_id, [block |-> allocated_block, size |-> size]),
                          !.allocated_order =
                              OrderSet(self.allocated_processes, @, process_id)],
              ret  |-> [ok |-> TRUE,
                        message |-> [kind |-> "allocated", process_id |-> process_id,
                                     block |-> allocated_block, size |-> size]]]
    ELSE [self |-> self,
          ret  |-> [ok |-> FALSE,
                    message |-> [kind |-> "no_exact_block", process_id |-> process_id,
                                 size |-> size]]]

\* allocate that falls back to the smallest larger class but records the requested size
allocate_next_fit_requested(self, process_id, size) ==
    LET fits == {c \in DOMAIN self.memory_blocks : c >= size /\ self.memory_blocks[c] # << >>}
    IN  IF size \in DOMAIN self.memory_blocks /\ fits # {}
        THEN LET c == CHOOSE x \in fits : \A y \in fits : x <= y
                 allocated_block == Head(self.memory_blocks[c])
             IN  [self |-> [self EXCEPT
                              !.memory_blocks[c] = Tail(@),
                              !.allocated_processes =
                                  DictSet(@, process_id, [block |-> allocated_block, size |-> size]),
                              !.allocated_order =
                                  OrderSet(self.allocated_processes, @, process_id)],
                  ret  |-> [ok |-> TRUE,
                            message |-> [kind |-> "allocated", process_id |-> process_id,
                                         block |-> allocated_block, size |-> size]]]
        ELSE [self |-> self,
              ret  |-> [ok |-> FALSE,
                        message |-> [kind |-> "no_exact_block", process_id |-> process_id,
                                     size |-> size]]]

\* QuickFit.allocate(process_id, size): the object afterwards and the returned tuple
allocate(self, process_id, size) ==
    IF size \in DOMAIN self.memory_blocks /\ self.memory_blocks[size] # << >>
    THEN LET allocated_block == Head(self.memory_blocks[size])
         IN  [self |-> [self EXCEPT
                          !.memory_blocks[size] = Tail(@),
                          !.allocated_processes =
                              DictSet(@, process_id, [block |-> allocated_block, size |-> size]),
                          !.allocated_order =
                              OrderSet(self.allocated_processes, @, process_id)],
              ret  |-> [ok |-> TRUE,
                        message |-> [kind |-> "allocated", process_id |-> process_id,
                                     block |-> allocated_block, size |-> size]]]
    ELSE [self |-> self,
          ret  |-> [ok |-> FALSE,
                    message |-> [kind |-> "no_exact_block", process_id |-> process_id,
                                 size |-> size]]]

\* deallocate that reports success for a process without a binding
deallocate_lenient(self, process_id) ==
    IF process_id \notin DOMAIN self.allocated_processes
    THEN [self |-> self,
          ret  |-> [ok |-> TRUE,
                    message |-> [kind |-> "no_allocation", process_id |-> process_id]]]
    ELSE LET allocation == self.allocated_processes[process_id]
             block_size == allocation.size
             block_name == allocation.block
         IN  [self |-> [self EXCEPT
                          !.memory_blocks =
                              IF block_size \in DOMAIN self.memory_blocks
                              THEN [@ EXCEPT ![block_size] = Append(@, block_name)]
                              ELSE DictSet(@, block_size, <<block_name>>),
                          !.memory_order =
                              OrderSet(self.memory_blocks, @, block_size),
                          !.allocated_processes = DictDel(@, process_id),
                          !.allocated_order = OrderDel(@, process_id)],
              ret  |-> [ok |-> TRUE,
                        message |-> [kind |-> "deallocated", block |-> block_name,
                                     size |-> block_size]]]

\* deallocate that puts the block at the front: insert(0, block) in place of append(block)
deallocate_push_front(self, process_id) ==
    IF process_id \notin DOMAIN self.allocated_processes
    THEN [self |-> self,
          ret  |-> [ok |-> FALSE,
                    message |-> [kind |-> "no_allocation", process_id |-> process_id]]]
    ELSE LET allocation == self.allocated_processes[process_id]
             block_size == allocation.size
             block_name == allocation.block
         IN  [self |-> [self EXCEPT
                          !.memory_blocks =
                              IF block_size \in DOMAIN self.memory_blocks
                              THEN [@ EXCEPT ![block_size] = <<block_name>> \o @]
                              ELSE DictSet(@, block_size, <<block_name>>),
                          !.memory_order =
                              OrderSet(self.memory_blocks, @, block_size),
                          !.allocated_processes = DictDel(@, process_id),
                          !.allocated_order = OrderDel(@, process_id)],
              ret  |-> [ok |-> TRUE,
                        message |-> [kind |-> "deallocated", block |-> block_name,
                                     size |-> block_size]]]

\* deallocate without the final del: the binding survives
deallocate_keep_binding(self, process_id) ==
    IF process_id \notin DOMAIN self.allocated_processes
    THEN [self |-> self,
          ret  |-> [ok |-> FALSE,
                    message |-> [kind |-> "no_allocation", process_id |-> process_id]]]
    ELSE LET allocation == self.allocated_processes[process_id]
             block_size == allocation.size
             block_name == allocation.block
         IN  [self |-> [self EXCEPT
                          !.memory_blocks =
                              IF block_size \in DOMAIN self.memory_blocks
                              THEN [@ EXCEPT ![block_size] = Append(@, block_name)]
                              ELSE DictSet(@, block_size, <<block_name>>),
                          !.memory_order =
                              OrderSet(self.memory_blocks, @, block_size)],
              ret  |-> [ok |-> TRUE,
                        message |-> [kind |-> "deallocated", block |-> block_name,
                                     size |-> block_size]]]

\* deallocate that also drops every other binding of the same size class
deallocate_whole_class(self, process_id) ==
    IF process_id \notin DOMAIN self.allocated_processes
    THEN [self |-> self,
          ret  |-> [ok |-> FALSE,
                    message |-> [kind |-> "no_allocation", process_id |-> process_id]]]
    ELSE LET allocation == self.allocated_processes[process_id]
             block_size == allocation.size
             block_name == allocation.block
             gone == {p \in DOMAIN self.allocated_processes :
                          self.allocated_processes[p].size = block_size}
         IN  [self |-> [self EXCEPT
                          !.memory_blocks =
                              IF block_size \in DOMAIN self.memory_blocks
                              THEN [@ EXCEPT ![block_size] = Append(@, block_name)]
                              ELSE DictSet(@, block_size, <<block_name>>),
                          !.memory_order =
                              OrderSet(self.memory_blocks, @, block_size),
                          !.allocated_processes =
                              [p \in (DOMAIN @) \ gone |-> @[p]],
                          !.allocated_order = SelectSeq(@, LAMBDA p : p \notin gone)],
              ret  |-> [ok |-> TRUE,
                        message |-> [kind |-> "deallocated", block |-> block_name,
                                     size |-> block_size]]]

\* QuickFit.deallocate(process_id): the object afterwards and the returned tuple
deallocate(self, process_id) ==
    IF process_id \notin DOMAIN self.allocated_processes
    THEN [self |-> self,
          ret  |-> [ok |-> FALSE,
                    message |-> [kind |-> "no_allocation", process_id |-> process_id]]]
    ELSE LET allocation == self.allocated_processes[process_id]
             block_size == allocation.size
             block_name == allocation.block
         IN  [self |-> [self EXCEPT
                          !.memory_blocks =
                              IF block_size \in DOMAIN self.memory_blocks
                              THEN [@ EXCEPT ![block_size] = Append(@, block_name)]
                              ELSE DictSet(@, block_size, <<block_name>>),
                          !.memory_order =
                              OrderSet(self.memory_blocks, @, block_size),
                          !.allocated_processes = DictDel(@, process_id),
                          !.allocated_order = OrderDel(@, process_id)],
              ret  |-> [ok |-> TRUE,
                        message |-> [kind |-> "deallocated", block |-> block_name,
                                     size |-> block_size]]]

\* the report lines of get_memory_state, in the order the two loops emit them
StateReport(self) ==
    <<[line |-> "Available Memory Blocks:"]>>
    \o [i \in 1..Len(self.memory_order) |->
           [line |-> "KB Blocks:", size |-> self.memory_order[i],
            blocks |-> self.memory_blocks[self.memory_order[i]]]]
    \o <<[line |-> "Allocated Processes:"]>>
    \o [i \in 1..Len(self.allocated_order) |->
           [line |-> "Process", process |-> self.allocated_order[i],
            block |-> self.allocated_processes[self.allocated_order[i]].block,
            size |-> self.allocated_processes[self.allocated_order[i]].size]]

\* get_memory_state that drops exhausted classes from the pool while reporting
get_memory_state_prune(self) ==
    LET keep == {c \in DOMAIN self.memory_blocks : self.memory_blocks[c] # << >>}
        pruned == [self EXCEPT
                     !.memory_blocks = [c \in keep |-> self.memory_blocks[c]],
                     !.memory_order = SelectSeq(@, LAMBDA c : c \in keep)]
    IN  [self |-> pruned, ret |-> StateReport(pruned)]

\* QuickFit.get_memory_state(): the object afterwards and the returned report
get_memory_state(self) ==
    [self |-> self, ret |-> StateReport(self)]

----------------------------------------------------------------------------
(* Calls on the QuickFit object *)

NoCall == [call |-> [op |-> "none"], ret |-> [ok |-> FALSE]]

\* what is kept of the call before `call`: that it was a report, or that it
\* succeeded for the same process id; nothing else
Before(call) ==
    IF last.call.op = "get_memory_state"
    THEN [op |-> "get_memory_state"]
    ELSE IF /\ last.call.op \in {"allocate", "deallocate"}
            /\ last.ret.ok
            /\ call.op \in {"allocate", "deallocate"}
            /\ last.call.process_id = call.process_id
    THEN [op |-> last.call.op, process_id |-> last.call.process_id]
    ELSE [op |-> "other"]

SetSelf(s) ==
    /\ memory_blocks' = s.memory_blocks
    /\ memory_order' = s.memory_order
    /\ allocated_processes' = s.allocated_processes
    /\ allocated_order' = s.allocated_order

Init ==
    /\ memory_blocks = initial_blocks
    /\ memory_order = initial_order
    /\ allocated_processes = QuickFitInit(initial_blocks, initial_order).allocated_processes
    /\ allocated_order = QuickFitInit(initial_blocks, initial_order).allocated_order
    /\ last = NoCall
    /\ prev = [op |-> "other"]
    /\ process_id_entry = ""
    /\ size_entry = << >>
    /\ state_text = StateReport(QuickFitInit(initial_blocks, initial_order))
    /\ messagebox = [kind |-> "none"]
    /\ core_calls = << >>
    /\ threads = [t \in Threads |-> [pc |-> "idle", calls |-> 0]]
    /\ overlapped = FALSE

\* a caller invokes quick_fit.allocate(process_id, size)
Allocate(process_id, size) ==
    LET r == allocate(Self, process_id, size)
    IN  /\ SetSelf(r.self)
        /\ last' = [call |-> [op |-> "allocate", process_id |-> process_id, size |-> size],
                    ret  |-> r.ret]
        /\ prev' = Before([op |-> "allocate", process_id |-> process_id])
        /\ UNCHANGED <<gui_vars, thread_vars>>

\* a caller invokes quick_fit.deallocate(process_id)
Deallocate(process_id) ==
    LET r == deallocate(Self, process_id)
    IN  /\ SetSelf(r.self)
        /\ last' = [call |-> [op |-> "deallocate", process_id |-> process_id],
                    ret  |-> r.ret]
        /\ prev' = Before([op |-> "deallocate", process_id |-> process_id])
        /\ UNCHANGED <<gui_vars, thread_vars>>

\* a caller invokes quick_fit.get_memory_state()
GetMemoryState ==
    LET r == get_memory_state(Self)
    IN  /\ SetSelf(r.self)
        /\ last' = [call |-> [op |-> "get_memory_state"], ret |-> r.ret]
        /\ prev' = Before([op |-> "get_memory_state"])
        /\ UNCHANGED <<gui_vars, thread_vars>>

Next ==
    \/ \E p \in Procs, s \in Sizes : Allocate(p, s)
    \/ \E p \in Procs : Deallocate(p)
    \/ GetMemoryState

Spec == Init /\ [][Next]_vars

\* a caller that never asks for a block on behalf of a process that holds one
AllocateFresh(process_id, size) ==
    /\ process_id \notin DOMAIN allocated_processes
    /\ Allocate(process_id, size)

NextUnique ==
    \/ \E p \in Procs, s \in Sizes : AllocateFresh(p, s)
    \/ \E p \in Procs : Deallocate(p)
    \/ GetMemoryState

\* the allocator under callers that keep process ids unique among bound processes
SpecUnique == Init /\ [][NextUnique]_vars

----------------------------------------------------------------------------
(* allocate and deallocate statement by statement, for callers that run    *)
(* without mutual exclusion: each statement is one step, and a statement   *)
(* that raises (pop from an empty list, a missing dict key) ends the       *)
(* caller.                                                                 *)

\* line 26: the membership and emptiness test of allocate
allocate_check(self, size) ==
    size \in DOMAIN self.memory_blocks /\ self.memory_blocks[size] # << >>

\* line 27 without the removal: the first block is read and stays in the list
allocate_pop_keep(self, size) ==
    IF self.memory_blocks[size] = << >>
    THEN [raised |-> "IndexError", self |-> self]
    ELSE [raised |-> "",
          self |-> self,
          allocated_block |-> Head(self.memory_blocks[size])]

\* line 27: allocated_block = self.memory_blocks[size].pop(0)
allocate_pop(self, size) ==
    IF self.memory_blocks[size] = << >>
    THEN [raised |-> "IndexError", self |-> self]
    ELSE [raised |-> "",
          self |-> [self EXCEPT !.memory_blocks[size] = Tail(@)],
          allocated_block |-> Head(self.memory_blocks[size])]

\* lines 28-31: self.allocated_processes[process_id] = {...}
allocate_bind(self, process_id, allocated_block, size) ==
    [self EXCEPT
       !.allocated_processes =
           DictSet(@, process_id, [block |-> allocated_block, size |-> size]),
       !.allocated_order = OrderSet(self.allocated_processes, @, process_id)]

\* line 43: the membership test of deallocate
deallocate_check(self, process_id) ==
    process_id \in DOMAIN self.allocated_processes

\* lines 47-49: allocation = self.allocated_processes[process_id] and its two fields
deallocate_read(self, process_id) ==
    IF process_id \notin DOMAIN self.allocated_processes
    THEN [raised |-> "KeyError"]
    ELSE [raised |-> "",
          block_size |-> self.allocated_processes[process_id].size,
          block_name |-> self.allocated_processes[process_id].block]

\* lines 52-56: append to the class, or create it
deallocate_append(self, block_size, block_name) ==
    [self EXCEPT
       !.memory_blocks =
           IF block_size \in DOMAIN self.memory_blocks
           THEN [@ EXCEPT ![block_size] = Append(@, block_name)]
           ELSE DictSet(@, block_size, <<block_name>>),
       !.memory_order = OrderSet(self.memory_blocks, @, block_size)]

\* line 59: del self.allocated_processes[process_id]
deallocate_del(self, process_id) ==
    IF process_id \notin DOMAIN self.allocated_processes
    THEN [raised |-> "KeyError", self |-> self]
    ELSE [raised |-> "",
          self |-> [self EXCEPT
                      !.allocated_processes = DictDel(@, process_id),
                      !.allocated_order = OrderDel(@, process_id)]]

\* caller u is between two statements of a call
InCall(u) == threads[u].pc \in {"pop", "bind", "read", "append", "del"}

\* caller t takes a step: remember whether another caller is inside a call
StepOf(t) ==
    /\ overlapped' = (overlapped \/ \E u \in Threads \ {t} : InCall(u))
    /\ UNCHANGED <<hist_vars, gui_vars>>

\* caller t enters allocate(process_id, size) and runs the test of line 26
AllocateCheck(t, process_id, size) ==
    /\ threads[t].pc = "idle"
    /\ threads[t].calls < MaxCalls
    /\ threads' = [threads EXCEPT ![t] =
                      IF allocate_check(Self, size)
                      THEN [pc |-> "pop", calls |-> @.calls + 1,
                            process_id |-> process_id, size |-> size]
                      ELSE [pc |-> "idle", calls |-> @.calls + 1]]
    /\ UNCHANGED core_vars
    /\ StepOf(t)

\* caller t runs line 27
AllocatePop(t) ==
    /\ threads[t].pc = "pop"
    /\ LET r == allocate_pop(Self, threads[t].size)
       IN  /\ SetSelf(r.self)
           /\ threads' = [threads EXCEPT ![t] =
                             IF r.raised # ""
                             THEN [pc |-> r.raised, calls |-> @.calls]
                             ELSE [pc |-> "bind", calls |-> @.calls,
                                   process_id |-> threads[t].process_id,
                                   size |-> threads[t].size,
                                   allocated_block |-> r.allocated_block]]
    /\ StepOf(t)

\* caller t runs lines 28-32 and returns
AllocateBind(t) ==
    /\ threads[t].pc = "bind"
    /\ SetSelf(allocate_bind(Self, threads[t].process_id, threads[t].allocated_block,
                             threads[t].size))
    /\ threads' = [threads EXCEPT ![t] = [pc |-> "idle", calls |-> @.calls]]
    /\ StepOf(t)

\* caller t enters deallocate(process_id) and runs the test of line 43
DeallocateCheck(t, process_id) ==
    /\ threads[t].pc = "idle"
    /\ threads[t].calls < MaxCalls
    /\ threads' = [threads EXCEPT ![t] =
                      IF deallocate_check(Self, process_id)
                      THEN [pc |-> "read", calls |-> @.calls + 1, process_id |-> process_id]
                      ELSE [pc |-> "idle", calls |-> @.calls + 1]]
    /\ UNCHANGED core_vars
    /\ StepOf(t)

\* caller t runs lines 47-49
DeallocateRead(t) ==
    /\ threads[t].pc = "read"
    /\ LET r == deallocate_read(Self, threads[t].process_id)
       IN  threads' = [threads EXCEPT ![t] =
                          IF r.raised # ""
                          THEN [pc |-> r.raised, calls |-> @.calls]
                          ELSE [pc |-> "append", calls |-> @.calls,
                                process_id |-> threads[t].process_id,
                                block_size |-> r.block_size, block_name |-> r.block_name]]
    /\ UNCHANGED core_vars
    /\ StepOf(t)

\* caller t runs lines 52-56
DeallocateAppend(t) ==
    /\ threads[t].pc = "append"
    /\ SetSelf(deallocate_append(Self, threads[t].block_size, threads[t].block_name))
    /\ threads' = [threads EXCEPT ![t].pc = "del"]
    /\ StepOf(t)

\* caller t runs lines 59-60 and returns
DeallocateDel(t) ==
    /\ threads[t].pc = "del"
    /\ LET r == deallocate_del(Self, threads[t].process_id)
       IN  /\ SetSelf(r.self)
           /\ threads' = [threads EXCEPT ![t] =
                             IF r.raised # ""
                             THEN [pc |-> r.raised, calls |-> @.calls]
                             ELSE [pc |-> "idle", calls |-> @.calls]]
    /\ StepOf(t)

NextThreads ==
    \/ \E t \in Threads, p \in Procs, s \in Sizes : AllocateCheck(t, p, s)
    \/ \E t \in Threads : AllocatePop(t)
    \/ \E t \in Threads : AllocateBind(t)
    \/ \E t \in Threads, p \in Procs : DeallocateCheck(t, p)
    \/ \E t \in Threads : DeallocateRead(t)
    \/ \E t \in Threads : DeallocateAppend(t)
    \/ \E t \in Threads : DeallocateDel(t)

\* two callers on one QuickFit object, no lock around the calls
SpecThreads == Init /\ [][NextThreads]_vars

----------------------------------------------------------------------------
(* Text input: what Python's int() makes of the size field.  A text is a    *)
(* sequence of one-character strings.                                       *)

DigitChars == <<"0", "1", "2", "3", "4", "5", "6", "7", "8", "9">>

IsDigit(ch) == \E i \in DOMAIN DigitChars : DigitChars[i] = ch

DigitValue(ch) == (CHOOSE i \in DOMAIN DigitChars : DigitChars[i] = ch) - 1

IsSpace(ch) == ch = " "

\* str.strip(): int() ignores surrounding whitespace
RECURSIVE LStrip(_)
LStrip(t) == IF t # << >> /\ IsSpace(Head(t)) THEN LStrip(Tail(t)) ELSE t

RECURSIVE RStrip(_)
RStrip(t) == IF t # << >> /\ IsSpace(t[Len(t)]) THEN RStrip(SubSeq(t, 1, Len(t) - 1)) ELSE t

Strip(t) == RStrip(LStrip(t))

HasSign(t) == t # << >> /\ Head(t) \in {"+", "-"}

\* the digits part of a literal: what follows the optional sign
Unsigned(t) == IF HasSign(t) THEN Tail(t) ELSE t

\* int(text) does not raise ValueError: optional sign, then digits, single
\* underscores allowed between digits
IsIntLiteral(text) ==
    LET u == Unsigned(Strip(text))
    IN  /\ u # << >>
        /\ \A i \in DOMAIN u : IsDigit(u[i]) \/ u[i] = "_"
        /\ IsDigit(u[1])
        /\ IsDigit(u[Len(u)])
        /\ \A i \in 1..(Len(u) - 1) : ~(u[i] = "_" /\ u[i + 1] = "_")

RECURSIVE DigitsValue(_, _)
DigitsValue(u, acc) ==
    IF u = << >> THEN acc
    ELSE IF Head(u) = "_" THEN DigitsValue(Tail(u), acc)
    ELSE DigitsValue(Tail(u), 10 * acc + DigitValue(Head(u)))

\* int(text) for a text that is a literal
IntValue(text) ==
    LET t == Strip(text)
        v == DigitsValue(Unsigned(t), 0)
    IN  IF HasSign(t) /\ Head(t) = "-" THEN 0 - v ELSE v

\* what a user types into the two entry widgets and the deallocate dialog
ProcessIdTexts == {"", ProcNames[1]}

SizeTexts ==
    { << >>, <<"5", "0">>, <<"1", "0", "0">>, <<"2", "0", "0">>, <<"9", "9", "9">>,
      <<"0">>, <<"-", "5">>, <<"+", "5", "0">>, <<" ", "5", "0">>, <<"5", "_", "0">>,
      <<"5", ".", "0">>, <<"a", "b">>, <<" ">> }

\* simpledialog.askstring returns the text, or None when the dialog is cancelled
DialogAnswers == {[given |-> TRUE, text |-> t] : t \in ProcessIdTexts} \cup {[given |-> FALSE]}

----------------------------------------------------------------------------
(* The front-end QuickFitGUI as a value, and its handlers as operators that *)
(* return the front-end afterwards and the calls made on quick_fit.         *)

Gui ==
    [quick_fit        |-> Self,
     process_id_entry |-> process_id_entry,
     size_entry       |-> size_entry,
     state_text       |-> state_text,
     messagebox       |-> messagebox]

\* QuickFitGUI.refresh_state()
refresh_state(gui) ==
    LET r == get_memory_state(gui.quick_fit)
    IN  [gui   |-> [gui EXCEPT !.quick_fit = r.self, !.state_text = r.ret],
         calls |-> <<[call |-> [op |-> "get_memory_state"], ret |-> r.ret]>>]

\* QuickFitGUI.allocate_memory()
allocate_memory(gui) ==
    LET process_id == gui.process_id_entry
        size_str == gui.size_entry
    IN  IF process_id = "" \/ size_str = << >>
        THEN [gui   |-> [gui EXCEPT !.messagebox =
                            [kind |-> "showerror", title |-> "Error",
                             message |-> [text |-> "Please enter both Process ID and Memory Size"]]],
              calls |-> << >>]
        ELSE IF ~IsIntLiteral(size_str)
        THEN [gui   |-> [gui EXCEPT !.messagebox =
                            [kind |-> "showerror", title |-> "Error",
                             message |-> [text |-> "Memory Size must be a number"]]],
              calls |-> << >>]
        ELSE LET size == IntValue(size_str)
                 r == allocate(gui.quick_fit, process_id, size)
                 shown == IF r.ret.ok
                          THEN [kind |-> "showinfo", title |-> "Allocation Success",
                                message |-> r.ret.message]
                          ELSE [kind |-> "showwarning", title |-> "Allocation Failed",
                                message |-> r.ret.message]
                 f == refresh_state([gui EXCEPT !.quick_fit = r.self,
                                                !.messagebox = shown,
                                                !.process_id_entry = "",
                                                !.size_entry = << >>])
             IN  [gui   |-> f.gui,
                  calls |-> <<[call |-> [op |-> "allocate", process_id |-> process_id,
                                         size |-> size],
                               ret  |-> r.ret]>> \o f.calls]

\* QuickFitGUI.deallocate_memory(), answer being what the dialog returned
deallocate_memory(gui, answer) ==
    IF ~answer.given \/ answer.text = ""
    THEN [gui |-> gui, calls |-> << >>]
    ELSE LET process_id == answer.text
             r == deallocate(gui.quick_fit, process_id)
             shown == IF r.ret.ok
                      THEN [kind |-> "showinfo", title |-> "Deallocation Success",
                            message |-> r.ret.message]
                      ELSE [kind |-> "showwarning", title |-> "Deallocation Failed",
                            message |-> r.ret.message]
             f == refresh_state([gui EXCEPT !.quick_fit = r.self, !.messagebox = shown])
         IN  [gui   |-> f.gui,
              calls |-> <<[call |-> [op |-> "deallocate", process_id |-> process_id],
                           ret  |-> r.ret]>> \o f.calls]

SetGui(h) ==
    /\ SetSelf(h.gui.quick_fit)
    /\ process_id_entry' = h.gui.process_id_entry
    /\ size_entry' = h.gui.size_entry
    /\ state_text' = h.gui.state_text
    /\ messagebox' = h.gui.messagebox
    /\ core_calls' = h.calls

\* the user edits the "Process ID" entry
TypeProcessId(text) ==
    /\ process_id_entry' = text
    /\ UNCHANGED <<core_vars, hist_vars, thread_vars, size_entry, state_text, messagebox, core_calls>>

\* the user edits the "Memory Size (KB)" entry
TypeSize(text) ==
    /\ size_entry' = text
    /\ UNCHANGED <<core_vars, hist_vars, thread_vars, process_id_entry, state_text, messagebox, core_calls>>

\* the "Allocate Memory" button
AllocateMemory ==
    LET h == allocate_memory(Gui)
    IN  /\ SetGui(h)
        /\ UNCHANGED <<hist_vars, thread_vars>>

\* the "Deallocate Process" button and the dialog it opens
DeallocateMemory(answer) ==
    LET h == deallocate_memory(Gui, answer)
    IN  /\ SetGui(h)
        /\ UNCHANGED <<hist_vars, thread_vars>>

\* the "Refresh Memory State" button
RefreshState ==
    LET h == refresh_state(Gui)
    IN  /\ SetGui(h)
        /\ UNCHANGED <<hist_vars, thread_vars>>

NextGUI ==
    \/ \E text \in ProcessIdTexts : TypeProcessId(text)
    \/ \E text \in SizeTexts : TypeSize(text)
    \/ AllocateMemory
    \/ \E answer \in DialogAnswers : DeallocateMemory(answer)
    \/ RefreshState

SpecGUI == Init /\ [][NextGUI]_vars

----------------------------------------------------------------------------
(* Where a block is *)

\* number of positions block b occupies in the free sequences
FreeCount(self, b) ==
    Cardinality({pos \in UNION {{<<c, i>> : i \in DOMAIN self.memory_blocks[c]} :
                                   c \in DOMAIN self.memory_blocks} :
                    self.memory_blocks[pos[1]][pos[2]] = b})

\* number of process bindings that hold block b
BoundCount(self, b) ==
    Cardinality({p \in DOMAIN self.allocated_processes : self.allocated_processes[p].block = b})

LastIs(h, op, ok) == h.call.op = op /\ h.ret.ok = ok

----------------------------------------------------------------------------
(* C1: after any sequence of allocate and deallocate calls, every seeded   *)
(* block name is in exactly one place: once in one free sequence, or held  *)
(* by exactly one binding; never both, never duplicated, never missing.    *)
C1_EveryBlockInExactlyOnePlace ==
    \A b \in SeedBlocks : FreeCount(Self, b) + BoundCount(Self, b) = 1

----------------------------------------------------------------------------
\* the next n allocate calls of size, made by p and q in turn, succeed and the
\* one after them is refused
RECURSIVE ServesExactly(_, _, _, _, _)
ServesExactly(self, n, p, q, size) ==
    LET r == allocate(self, p, size)
    IN  IF n = 0 THEN ~r.ret.ok
        ELSE r.ret.ok /\ ServesExactly(r.self, n - 1, q, p, size)

(* C2: in every reachable state allocate(p, s) succeeds iff class s exists *)
(* and its free sequence is non-empty; on success the bound block comes    *)
(* out of class s's own sequence (no other class loses a block) and the    *)
(* binding records size s; a class holding n blocks serves exactly n       *)
(* requests of its size (from one process or from two in turn) and refuses *)
(* the next one.                                                           *)
C2_ExactFit ==
    /\ \A p \in Procs, s \in Sizes :
           LET r == allocate(Self, p, s)
           IN  /\ r.ret.ok <=> (s \in DOMAIN memory_blocks /\ Len(memory_blocks[s]) > 0)
               /\ r.ret.ok =>
                    /\ \E i \in DOMAIN memory_blocks[s] :
                           memory_blocks[s][i] = r.self.allocated_processes[p].block
                    /\ r.self.allocated_processes[p].size = s
                    /\ r.ret.message.block = r.self.allocated_processes[p].block
                    /\ r.ret.message.size = s
                    /\ Len(r.self.memory_blocks[s]) = Len(memory_blocks[s]) - 1
                    /\ \A c \in DOMAIN memory_blocks \ {s} :
                           r.self.memory_blocks[c] = memory_blocks[c]
    /\ \A s \in Sizes :
           \A p, q \in Procs : ServesExactly(Self, Len(FreeSeq(Self, s)), p, q, s)

\* an allocate has just succeeded on a class that is thereby exhausted, while
\* another class still has blocks
C2_Witness ==
    /\ LastIs(last, "allocate", TRUE)
    /\ memory_blocks[last.call.size] = << >>
    /\ allocated_processes[last.call.process_id].size = last.call.size
    /\ \E c \in DOMAIN memory_blocks : memory_blocks[c] # << >>

----------------------------------------------------------------------------
(* C3: each free sequence is a FIFO queue: a successful allocate binds the *)
(* first element and leaves the rest in order; a successful deallocate     *)
(* puts the block last and leaves the elements already there in order.     *)
C3_Fifo ==
    /\ \A p \in Procs, s \in Sizes :
           LET r == allocate(Self, p, s)
           IN  r.ret.ok =>
                 /\ r.self.allocated_processes[p].block = memory_blocks[s][1]
                 /\ r.self.memory_blocks[s] =
                        SubSeq(memory_blocks[s], 2, Len(memory_blocks[s]))
    /\ \A p \in Procs :
           LET d == deallocate(Self, p)
           IN  d.ret.ok =>
                 LET c == allocated_processes[p].size
                     q == d.self.memory_blocks[c]
                 IN  /\ Len(q) = Len(FreeSeq(Self, c)) + 1
                     /\ q[Len(q)] = allocated_processes[p].block
                     /\ SubSeq(q, 1, Len(q) - 1) = FreeSeq(Self, c)

\* a block was released behind another one, by the process that had been handed
\* it in the call before
C3_Witness ==
    /\ LastIs(last, "deallocate", TRUE)
    /\ Len(memory_blocks[last.ret.message.size]) >= 2
    /\ memory_blocks[last.ret.message.size][Len(memory_blocks[last.ret.message.size])]
           = last.ret.message.block
    /\ prev.op = "allocate"

----------------------------------------------------------------------------
(* C4: a failing allocate (class unknown, or known but empty) reports      *)
(* failure and changes nothing: free sequences, set of classes and all     *)
(* bindings, the caller's own included, are as before.                     *)
C4_FailedAllocateChangesNothing ==
    \A p \in Procs, s \in Sizes :
        LET r == allocate(Self, p, s)
        IN  ~r.ret.ok =>
              /\ r.self = Self
              /\ DOMAIN r.self.memory_blocks = DOMAIN memory_blocks
              /\ r.ret.message = [kind |-> "no_exact_block", process_id |-> p, size |-> s]

\* a process was refused an exhausted class right after it had been handed a block
C4_Witness ==
    /\ LastIs(last, "allocate", FALSE)
    /\ last.call.size \in DOMAIN memory_blocks
    /\ memory_blocks[last.call.size] = << >>
    /\ last.call.process_id \in DOMAIN allocated_processes
    /\ prev.op = "allocate"

----------------------------------------------------------------------------
(* C5: deallocate(p) fails iff p has no binding, and a failing deallocate  *)
(* changes nothing.                                                        *)
C5_DeallocateFailsIffUnbound ==
    \A p \in Procs :
        LET d == deallocate(Self, p)
        IN  /\ ~d.ret.ok <=> p \notin DOMAIN allocated_processes
            /\ ~d.ret.ok =>
                 /\ d.self = Self
                 /\ d.ret.message = [kind |-> "no_allocation", process_id |-> p]

\* an unbound process was refused while another process holds a block
C5_Witness ==
    /\ LastIs(last, "deallocate", FALSE)
    /\ last.call.process_id \notin DOMAIN allocated_processes
    /\ DOMAIN allocated_processes # {}

----------------------------------------------------------------------------
(* C6: round trip: for p not bound, a successful allocate(p, s) of block b *)
(* followed at once by deallocate(p) succeeds reporting b and s, leaves p  *)
(* unbound, every other binding and class as before the allocate, and      *)
(* class s with b moved from the head to the tail.                         *)
C6_RoundTrip ==
    \A p \in Procs \ DOMAIN allocated_processes, s \in Sizes :
        LET a == allocate(Self, p, s)
            d == deallocate(a.self, p)
            b == a.ret.message.block
        IN  a.ret.ok =>
              /\ b = Head(memory_blocks[s])
              /\ d.ret.ok
              /\ d.ret.message.block = b
              /\ d.ret.message.size = s
              /\ p \notin DOMAIN d.self.allocated_processes
              /\ d.self.allocated_processes = allocated_processes
              /\ d.self.allocated_order = allocated_order
              /\ DOMAIN d.self.memory_blocks = DOMAIN memory_blocks
              /\ d.self.memory_order = memory_order
              /\ \A c \in DOMAIN memory_blocks \ {s} :
                     d.self.memory_blocks[c] = memory_blocks[c]
              /\ d.self.memory_blocks[s] = Append(Tail(memory_blocks[s]), b)

\* allocate(p, s) then deallocate(p) have just run, no block was lost (so p was
\* not bound before), and the block went round behind another one
C6_Witness ==
    /\ prev.op = "allocate"
    /\ LastIs(last, "deallocate", TRUE)
    /\ last.call.process_id = prev.process_id
    /\ \A b \in SeedBlocks : FreeCount(Self, b) + BoundCount(Self, b) = 1
    /\ Len(memory_blocks[last.ret.message.size]) >= 2
    /\ DOMAIN allocated_processes # {}

----------------------------------------------------------------------------
(* C7: after a successful deallocate(p) every further deallocate(p) fails  *)
(* until an allocate(p, .) succeeds: the repeated call is refused and      *)
(* appends nothing, and while p is unbound only a successful allocate for  *)
(* p itself binds it.                                                      *)
C7_NoDoubleDeallocate ==
    /\ \A p \in Procs :
           LET d == deallocate(Self, p)
               d2 == deallocate(d.self, p)
           IN  d.ret.ok =>
                 /\ ~d2.ret.ok
                 /\ d2.ret.message.kind = "no_allocation"
                 /\ d2.self = d.self
                 /\ FreeCount(d2.self, allocated_processes[p].block)
                        = FreeCount(Self, allocated_processes[p].block) + 1
    /\ \A p \in Procs \ DOMAIN allocated_processes :
           /\ ~deallocate(Self, p).ret.ok
           /\ \A q \in Procs : p \notin DOMAIN deallocate(Self, q).self.allocated_processes
           /\ p \notin DOMAIN get_memory_state(Self).self.allocated_processes
           /\ \A q \in Procs, s \in Sizes :
                  LET r == allocate(Self, q, s)
                  IN  p \in DOMAIN r.self.allocated_processes => (q = p /\ r.ret.ok)

\* deallocate(p) succeeded and the same call, repeated at once, was refused
C7_Witness ==
    /\ prev.op = "deallocate"
    /\ LastIs(last, "deallocate", FALSE)
    /\ last.call.process_id = prev.process_id
    /\ \A b \in SeedBlocks : FreeCount(Self, b) <= 1

----------------------------------------------------------------------------
(* C8: when allocate(p, s2) succeeds while p already holds block b, the    *)
(* binding of p is overwritten with the newly taken block and b is         *)
(* orphaned: in no free sequence and held by no binding.                   *)
C8_ReallocateOrphans ==
    \A p \in DOMAIN allocated_processes, s2 \in Sizes :
        LET r == allocate(Self, p, s2)
            b == allocated_processes[p].block
        IN  r.ret.ok =>
              /\ r.self.allocated_processes[p] = [block |-> Head(memory_blocks[s2]), size |-> s2]
              /\ r.self.allocated_processes[p].block # b
              /\ FreeCount(r.self, b) = 0
              /\ BoundCount(r.self, b) = 0

\* two successful allocates in a row for the same process: the first block is nowhere
C8_Witness ==
    /\ prev.op = "allocate"
    /\ LastIs(last, "allocate", TRUE)
    /\ last.call.process_id = prev.process_id
    /\ allocated_processes[last.call.process_id].block = last.ret.message.block
    /\ \E b \in SeedBlocks : FreeCount(Self, b) = 0 /\ BoundCount(Self, b) = 0

----------------------------------------------------------------------------
(* C9: get_memory_state always produces its report and changes nothing:    *)
(* pools, classes and bindings are as before, and a second call right      *)
(* after the first returns the same report.                                *)
C9_SnapshotPure ==
    LET r == get_memory_state(Self)
        r2 == get_memory_state(r.self)
    IN  /\ r.self = Self
        /\ r2.ret = r.ret
        /\ Len(r.ret) = 2 + Cardinality(DOMAIN memory_blocks)
                          + Cardinality(DOMAIN allocated_processes)
        /\ \A c \in DOMAIN memory_blocks :
               \E i \in DOMAIN r.ret :
                   r.ret[i] = [line |-> "KB Blocks:", size |-> c, blocks |-> memory_blocks[c]]
        /\ \A p \in DOMAIN allocated_processes :
               \E i \in DOMAIN r.ret :
                   r.ret[i] = [line |-> "Process", process |-> p,
                               block |-> allocated_processes[p].block,
                               size |-> allocated_processes[p].size]

\* two reports in a row, of a state with a binding and an exhausted class
C9_Witness ==
    /\ prev.op = "get_memory_state"
    /\ last.call.op = "get_memory_state"
    /\ last.ret = StateReport(Self)
    /\ DOMAIN allocated_processes # {}
    /\ \E c \in DOMAIN memory_blocks : memory_blocks[c] = << >>

----------------------------------------------------------------------------
\* the two fields hold what the core may be called with: a non-empty process
\* id and the text of a positive integer
ValidAllocateInput(gui) ==
    /\ gui.process_id_entry # ""
    /\ IsIntLiteral(gui.size_entry)
    /\ IntValue(gui.size_entry) > 0

(* C10: the allocate handler calls QuickFit.allocate only with a non-empty *)
(* process id and a positive integer size; for every other content of the  *)
(* two fields the core is not called and the allocator is unchanged.       *)
C10_HandlerValidatesInput ==
    LET h == allocate_memory(Gui)
    IN  /\ \A i \in DOMAIN h.calls :
               h.calls[i].call.op = "allocate" =>
                   (h.calls[i].call.process_id # "" /\ h.calls[i].call.size > 0)
        /\ ~ValidAllocateInput(Gui) =>
               (h.calls = << >> /\ h.gui.quick_fit = Self)
        /\ \A i \in DOMAIN core_calls :
               core_calls[i].call.op = "allocate" =>
                   (core_calls[i].call.process_id # "" /\ core_calls[i].call.size > 0)

----------------------------------------------------------------------------
\* the blocks in the free sequence of class c
FreeBlocks(self, c) == {self.memory_blocks[c][i] : i \in DOMAIN self.memory_blocks[c]}

(* C11: no block held by a process binding occurs in any free sequence,    *)
(* and no block is held by two process bindings, also when allocate is     *)
(* called again for a process id that is already bound.                    *)
C11_BoundBlocksNotFree ==
    /\ \A p \in DOMAIN allocated_processes, c \in DOMAIN memory_blocks :
           allocated_processes[p].block \notin FreeBlocks(Self, c)
    /\ \A p, q \in DOMAIN allocated_processes :
           allocated_processes[p].block = allocated_processes[q].block => p = q

\* a bound process was handed a second block, while another process holds one
\* and free blocks remain
C11_Witness ==
    /\ prev.op = "allocate"
    /\ LastIs(last, "allocate", TRUE)
    /\ last.call.process_id = prev.process_id
    /\ Cardinality(DOMAIN allocated_processes) >= 2
    /\ \E c \in DOMAIN memory_blocks : memory_blocks[c] # << >>

----------------------------------------------------------------------------
\* of the next n allocate(p, size) calls, each one preceded by a refused
\* allocate and by a deallocate(q), all succeed and exactly the last hands out b
RECURSIVE HandedOutLast(_, _, _, _, _, _)
HandedOutLast(self, n, size, p, q, b) ==
    LET f == allocate(self, p, 999)
        d == deallocate(f.self, q)
        a == allocate(d.self, p, size)
    IN  /\ ~f.ret.ok
        /\ a.ret.ok
        /\ IF n = 1 THEN a.ret.message.block = b
           ELSE a.ret.message.block # b /\ HandedOutLast(a.self, n - 1, size, p, q, b)

(* C12: a block released into a class that holds k blocks stands at        *)
(* position k+1; a block at position i moves to i-1 with each successful   *)
(* allocate of its class and is handed out by the one that finds it first; *)
(* no other call moves it.  So the released block is handed out by exactly *)
(* the (k+1)-th later successful allocate of its size, whatever deallocate *)
(* and refused allocate calls come in between.                             *)
C12_ReuseLast ==
    /\ \A p \in DOMAIN allocated_processes :
           LET d == deallocate(Self, p)
               b == allocated_processes[p].block
               s == allocated_processes[p].size
               k == Len(FreeSeq(Self, s))
           IN  /\ d.ret.ok
               /\ Len(d.self.memory_blocks[s]) = k + 1
               /\ d.self.memory_blocks[s][k + 1] = b
               /\ \A p2, q \in Procs : HandedOutLast(d.self, k + 1, s, p2, q, b)
    /\ \A c \in DOMAIN memory_blocks : \A i \in 1..Len(FreeSeq(Self, c)) :
           LET x == memory_blocks[c][i]
           IN  /\ \A q \in Procs, s \in Sizes :
                      LET r == allocate(Self, q, s)
                      IN  IF r.ret.ok /\ s = c
                          THEN IF i = 1
                               THEN r.ret.message.block = x
                               ELSE r.self.memory_blocks[c][i - 1] = x
                                    /\ r.ret.message.block # x
                          ELSE r.self.memory_blocks[c][i] = x
               /\ \A q \in Procs :
                      deallocate(Self, q).self.memory_blocks[c][i] = x

\* a released block stands behind an older free block of its class
C12_Witness ==
    /\ LastIs(last, "deallocate", TRUE)
    /\ Len(memory_blocks[last.ret.message.size]) = 2
    /\ memory_blocks[last.ret.message.size][2] = last.ret.message.block
    /\ prev.op = "other"
    /\ DOMAIN allocated_processes # {}

----------------------------------------------------------------------------
\* the blocks that are in some free sequence or held by some binding
Present(self) ==
    UNION {FreeBlocks(self, c) : c \in DOMAIN self.memory_blocks}
        \cup {self.allocated_processes[p].block : p \in DOMAIN self.allocated_processes}

RECURSIVE SumLen(_, _)
SumLen(blocks, classes) ==
    IF classes = {} THEN 0
    ELSE LET c == CHOOSE x \in classes : TRUE
         IN  Len(blocks[c]) + SumLen(blocks, classes \ {c})

\* number of free positions plus number of bindings
Held(self) ==
    SumLen(self.memory_blocks, DOMAIN self.memory_blocks)
        + Cardinality(DOMAIN self.allocated_processes)

(* C13: a block that is neither free nor bound stays so in every later     *)
(* state: no call brings a block back, the number of blocks free or bound  *)
(* never grows, and each successful allocate for an already bound process  *)
(* lowers it by one, the block held before being the one that is lost.     *)
C13_OrphanLostForever ==
    [][/\ Present(Self)' \subseteq Present(Self)
       /\ Held(Self)' <= Held(Self)
       /\ (/\ last'.call.op = "allocate"
           /\ last'.ret.ok
           /\ last'.call.process_id \in DOMAIN allocated_processes)
          => /\ Held(Self)' = Held(Self) - 1
             /\ allocated_processes[last'.call.process_id].block \notin Present(Self)'
             /\ Present(Self)' =
                    Present(Self) \ {allocated_processes[last'.call.process_id].block}]_vars

\* a block is lost and calls have been made since: a deallocate has just
\* succeeded for a process other than the one of the call before
C13_Witness ==
    /\ \E b \in SeedBlocks : b \notin Present(Self)
    /\ LastIs(last, "deallocate", TRUE)
    /\ prev.op = "other"
    /\ Held(Self) < Cardinality(SeedBlocks)

----------------------------------------------------------------------------
\* the size classes a report lists, in the order of its lines
ClassLines(report) ==
    LET lines == SelectSeq(report, LAMBDA l : l.line = "KB Blocks:")
    IN  [i \in 1..Len(lines) |-> lines[i].size]

\* the process ids a report lists, in the order of its lines
ProcessLines(report) ==
    LET lines == SelectSeq(report, LAMBDA l : l.line = "Process")
    IN  [i \in 1..Len(lines) |-> lines[i].process]

(* C14: the report lists the size classes in seed order and the bindings   *)
(* in the order in which the bindings now held were created: a successful  *)
(* allocate makes its binding the newest, listed last behind the others in *)
(* their old order, also for a process that was deallocated before or that *)
(* is already bound; a successful deallocate only removes its line.        *)
C14_SnapshotOrder ==
    LET now == get_memory_state(Self).ret
    IN  /\ ClassLines(now) = initial_order
        /\ \A p \in Procs, s \in Sizes :
               LET r == allocate(Self, p, s)
               IN  r.ret.ok =>
                     ProcessLines(get_memory_state(r.self).ret)
                         = Append(SelectSeq(ProcessLines(now), LAMBDA x : x # p), p)
        /\ \A p \in Procs :
               LET d == deallocate(Self, p)
               IN  d.ret.ok =>
                     ProcessLines(get_memory_state(d.self).ret)
                         = SelectSeq(ProcessLines(now), LAMBDA x : x # p)

----------------------------------------------------------------------------
(* C16: the set of size classes is the set of seeded classes in every      *)
(* state: an exhausted class stays, with an empty sequence, and deallocate *)
(* never takes its create-a-class branch, because the size of every        *)
(* binding is a class that exists.                                         *)
C16_ClassesConstant ==
    /\ DOMAIN memory_blocks = DOMAIN initial_blocks
    /\ memory_order = initial_order
    /\ \A p \in DOMAIN allocated_processes :
           /\ allocated_processes[p].size \in DOMAIN memory_blocks
           /\ deallocate(Self, p).self.memory_order = memory_order
    /\ \A p \in Procs, s \in Sizes :
           DOMAIN allocate(Self, p, s).self.memory_blocks = DOMAIN memory_blocks

\* a deallocate has just put a block into a class that was exhausted, while
\* another class is exhausted
C16_Witness ==
    /\ LastIs(last, "deallocate", TRUE)
    /\ Len(memory_blocks[last.ret.message.size]) = 1
    /\ \E c \in DOMAIN memory_blocks : memory_blocks[c] = << >>

----------------------------------------------------------------------------
\* the class a block was seeded in
SeedClass(b) == CHOOSE c \in DOMAIN initial_blocks :
                    \E i \in DOMAIN initial_blocks[c] : initial_blocks[c][i] = b

(* C17: blocks never change class: every block in the free sequence of     *)
(* class s was seeded in class s, and the size recorded in a binding is    *)
(* the seed class of the block it holds.                                   *)
C17_NoMigration ==
    /\ \A c \in DOMAIN memory_blocks : \A b \in FreeBlocks(Self, c) :
           b \in SeedBlocks /\ SeedClass(b) = c
    /\ \A p \in DOMAIN allocated_processes :
           /\ allocated_processes[p].block \in SeedBlocks
           /\ SeedClass(allocated_processes[p].block) = allocated_processes[p].size

\* a block has come back to its class behind a block seeded after it, while a
\* block of another class is bound
C17_Witness ==
    /\ LastIs(last, "deallocate", TRUE)
    /\ memory_blocks[50] = <<"Block2", "Block1">>
    /\ \E p \in DOMAIN allocated_processes : allocated_processes[p].size # 50

----------------------------------------------------------------------------
(* C19: a successful allocate(p, s) leaves the free sequences of all       *)
(* classes other than s and the bindings of all processes other than p     *)
(* unchanged; a successful deallocate(p) leaves the free sequences of all  *)
(* classes other than the one recorded in p's binding and the bindings of  *)
(* all processes other than p unchanged.                                   *)
C19_Frame ==
    /\ \A p \in Procs, s \in Sizes :
           LET r == allocate(Self, p, s)
           IN  r.ret.ok =>
                 /\ \A c \in (DOMAIN memory_blocks \cup DOMAIN r.self.memory_blocks) \ {s} :
                        FreeSeq(r.self, c) = FreeSeq(Self, c)
                 /\ DOMAIN r.self.allocated_processes \ {p} = DOMAIN allocated_processes \ {p}
                 /\ \A q \in DOMAIN allocated_processes \ {p} :
                        r.self.allocated_processes[q] = allocated_processes[q]
    /\ \A p \in Procs :
           LET d == deallocate(Self, p)
           IN  d.ret.ok =>
                 /\ \A c \in (DOMAIN memory_blocks \cup DOMAIN d.self.memory_blocks)
                                 \ {allocated_processes[p].size} :
                        FreeSeq(d.self, c) = FreeSeq(Self, c)
                 /\ DOMAIN d.self.allocated_processes \ {p} = DOMAIN allocated_processes \ {p}
                 /\ \A q \in DOMAIN allocated_processes \ {p} :
                        d.self.allocated_processes[q] = allocated_processes[q]

\* a deallocate has just succeeded while another process of the same class
\* keeps its block and other classes hold free blocks
C19_Witness ==
    /\ LastIs(last, "deallocate", TRUE)
    /\ \E q \in DOMAIN allocated_processes :
           allocated_processes[q].size = last.ret.message.size
    /\ \E c \in DOMAIN memory_blocks \ {last.ret.message.size} : memory_blocks[c] # << >>

----------------------------------------------------------------------------
(* C18: when allocate is never called for a process id that is bound at    *)
(* the call, every seeded block is in exactly one free sequence or held by *)
(* exactly one binding, and free blocks plus bindings number as many as    *)
(* the seeded blocks.                                                      *)
C18_ConservationUniqueIds ==
    /\ \A b \in SeedBlocks :
           \/ FreeCount(Self, b) = 1 /\ BoundCount(Self, b) = 0
           \/ FreeCount(Self, b) = 0 /\ BoundCount(Self, b) = 1
    /\ Held(Self) = Cardinality(SeedBlocks)
    /\ Present(Self) = SeedBlocks

\* a process released its block and was bound again, while another process
\* holds a block
C18_Witness ==
    /\ prev.op = "deallocate"
    /\ LastIs(last, "allocate", TRUE)
    /\ last.call.process_id = prev.process_id
    /\ Cardinality(DOMAIN allocated_processes) >= 2

----------------------------------------------------------------------------
\* no caller is between two statements of a call
Quiescent == \A t \in Threads : ~InCall(t)

\* between calls, some block is in two places: twice free, free and bound, or
\* bound twice
BlockInTwoPlaces ==
    /\ Quiescent
    /\ \E b \in SeedBlocks : FreeCount(Self, b) + BoundCount(Self, b) >= 2

\* a statement of allocate or deallocate raised
CallRaised == \E t \in Threads : threads[t].pc \in {"IndexError", "KeyError"}

(* C15: with allocate and deallocate run statement by statement by two     *)
(* callers, a block in two places between calls, or a call broken off by   *)
(* an exception, occurs only after calls have interleaved: as long as each *)
(* call ran from its first to its last statement with no step of another   *)
(* caller in between, neither happens.  The witness shows that the         *)
(* interleaving does reach such a state.                                   *)
C15_OnlyInterleavingBreaks ==
    (BlockInTwoPlaces \/ CallRaised) => overlapped

\* two interleaved deallocate calls for one process have both appended its
\* block: it is twice in its free sequence, and the second del raised
C15_Witness ==
    /\ overlapped
    /\ Quiescent
    /\ \E b \in SeedBlocks : FreeCount(Self, b) = 2 /\ BoundCount(Self, b) = 0
    /\ \E t \in Threads : threads[t].pc = "KeyError"

====
